---- MODULE Spec2Model ----
(***************************************************************************)
(* PlayAct: a three-widget demo form (src/src/App.jsx) and the PDF test    *)
(* harness around it (PdfPage in e2e/pages, the PDF utilities, and the     *)
(* invoice calculation validator of the PDF validation suite).             *)
(*                                                                         *)
(* Strings are TLA+ strings; numbers with decimals are scaled integers:    *)
(* thresholds in hundredths, percentages in hundredths of a percent,      *)
(* invoice amounts in hundredths.                                          *)
(***************************************************************************)
EXTENDS Integers, Sequences, FiniteSets, TLC

VARIABLES
    checked,        \* App: useState(false)
    textValue,      \* App: useState('')
    selectedFruit,  \* App: useState(null)
    view,           \* App: what the last render displays
    latest,         \* history: the latest input made to each field (<<>> = never touched)
    event,          \* history: the component that received the last input
    toggles,        \* history: the number of checkbox toggles since the page was loaded
    files,          \* the snapshot directory: path -> file content
    ret,            \* the value returned by the last comparePdfVisual
    call,           \* history: the arguments of the last comparePdfVisual
    before,         \* history: the snapshot directory when that call started
    follows,        \* history: that call came right after an updating call with the
                    \* same source, name and other options
    assertion,      \* outcome of the last expectPdf... assertion
    img1, img2, imgOptions, cmp,      \* compareImages: arguments and result
    invoiceText, invoice,             \* validateInvoice: extracted text and result
    pdfText, expectedTexts, validation, \* validatePdfContent: arguments and result
    tasks,          \* two calls of comparePdfVisual in one process: position, arguments, result
    resumed,        \* history: the calls in the order they got past their await
    dl              \* downloadPdf / downloadPdfAsBuffer: position, listener, event, result

appVars == <<checked, textValue, selectedFruit, view, latest, event, toggles>>
pdfVars == <<files, ret, call, before, follows, assertion>>
imgVars == <<img1, img2, imgOptions, cmp>>
invVars == <<invoiceText, invoice>>
txtVars == <<pdfText, expectedTexts, validation>>
asyncVars == <<tasks, resumed>>
dlVars == <<dl>>
vars == <<appVars, pdfVars, imgVars, invVars, txtVars, asyncVars, dlVars>>

\* JavaScript's null and undefined
null == "null"
undefined == "undefined"

\* a result that may not exist yet is <<>> before and <<r>> after it is produced
NoResult == <<>>

(***************************************************************************)
(* Number -> string, as a template literal or String(n) prints a           *)
(* non-negative integer.                                                    *)
(***************************************************************************)
Digit(d) ==
    CASE d = 0 -> "0" [] d = 1 -> "1" [] d = 2 -> "2" [] d = 3 -> "3" [] d = 4 -> "4"
      [] d = 5 -> "5" [] d = 6 -> "6" [] d = 7 -> "7" [] d = 8 -> "8" [] d = 9 -> "9"

RECURSIVE NatStr(_)
NatStr(n) == IF n < 10 THEN Digit(n) ELSE NatStr(n \div 10) \o Digit(n % 10)

(***************************************************************************)
(*                              The App                                    *)
(***************************************************************************)
fruitOptions ==
    <<"Apple", "Banana", "Cherry", "Date", "Elderberry", "Fig", "Grape", "Honeydew">>

Fruits == {fruitOptions[i] : i \in DOMAIN fruitOptions}

\* the strings a user can put in the text field: every string over Alphabet
\* of at most MaxTextLen characters
MaxTextLen == 2
Alphabet == {"J", "o", " "}

RECURSIVE Strings(_)
Strings(n) ==
    IF n = 0 THEN {""}
    ELSE Strings(n - 1) \cup {s \o c : s \in Strings(n - 1), c \in Alphabet}

TextValues == Strings(MaxTextLen)

\* the JSX returned by App, as a function of the three state fields; an element
\* rendered conditionally is <<>> when absent and <<text>> when present
Render_NoStatus(c, t, f) ==
    [ status    |-> "Status: " \o "Not Accepted",
      helper    |-> "Character count: " \o NatStr(Len(t)),
      greeting  |-> IF t # "" THEN <<"Hello, " \o t \o "!">> ELSE <<>>,
      selection |-> IF f # null THEN <<"You selected: " \o f>> ELSE <<>> ]

Render_CountOff(c, t, f) ==
    [ status    |-> "Status: " \o (IF c THEN "Accepted" ELSE "Not Accepted"),
      helper    |-> "Character count: " \o NatStr(Len(t) + 1),
      greeting  |-> IF t # "" THEN <<"Hello, " \o t \o "!">> ELSE <<>>,
      selection |-> IF f # null THEN <<"You selected: " \o f>> ELSE <<>> ]

Render_GreetTrim(c, t, f) ==
    [ status    |-> "Status: " \o (IF c THEN "Accepted" ELSE "Not Accepted"),
      helper    |-> "Character count: " \o NatStr(Len(t)),
      greeting  |-> IF t \notin {"", " "} THEN <<"Hello, " \o t \o "!">> ELSE <<>>,
      selection |-> IF f # null THEN <<"You selected: " \o f>> ELSE <<>> ]

Render_KeepsSelection(c, t, f) ==
    [ status    |-> "Status: " \o (IF c THEN "Accepted" ELSE "Not Accepted"),
      helper    |-> "Character count: " \o NatStr(Len(t)),
      greeting  |-> IF t # "" THEN <<"Hello, " \o t \o "!">> ELSE <<>>,
      selection |-> <<"You selected: " \o f>> ]

Render(c, t, f) ==
    [ status    |-> "Status: " \o (IF c THEN "Accepted" ELSE "Not Accepted"),
      helper    |-> "Character count: " \o NatStr(Len(t)),
      greeting  |-> IF t # "" THEN <<"Hello, " \o t \o "!">> ELSE <<>>,
      selection |-> IF f # null THEN <<"You selected: " \o f>> ELSE <<>> ]

AppInit ==
    /\ checked = FALSE
    /\ textValue = ""
    /\ selectedFruit = null
    /\ view = Render(FALSE, "", null)
    /\ latest = [checkbox |-> <<>>, textfield |-> <<>>, autocomplete |-> <<>>]
    /\ event = "none"
    /\ toggles = 0

\* toggles counted by the model
MaxToggles == 4

\* Checkbox onChange: a click on the controlled checkbox delivers
\* e.target.checked = the opposite of what is displayed
CheckboxChange_Sticky ==
    LET v == ~checked IN
    /\ toggles < MaxToggles
    /\ toggles' = toggles + 1
    /\ checked' = TRUE
    /\ view' = Render(TRUE, textValue, selectedFruit)
    /\ latest' = [latest EXCEPT !.checkbox = <<v>>]
    /\ event' = "checkbox"
    /\ UNCHANGED <<textValue, selectedFruit>>
    /\ UNCHANGED <<pdfVars, imgVars, invVars, txtVars, asyncVars, dlVars>>

CheckboxChange_Stale ==
    LET v == ~checked IN
    /\ toggles < MaxToggles
    /\ toggles' = toggles + 1
    /\ checked' = (IF toggles = 0 THEN v ELSE checked)
    /\ view' = Render(checked', textValue, selectedFruit)
    /\ latest' = [latest EXCEPT !.checkbox = <<checked'>>]
    /\ event' = "checkbox"
    /\ UNCHANGED <<textValue, selectedFruit>>
    /\ UNCHANGED <<pdfVars, imgVars, invVars, txtVars, asyncVars, dlVars>>

CheckboxChange ==
    LET v == ~checked IN
    /\ toggles < MaxToggles
    /\ toggles' = toggles + 1
    /\ checked' = v
    /\ view' = Render(v, textValue, selectedFruit)
    /\ latest' = [latest EXCEPT !.checkbox = <<v>>]
    /\ event' = "checkbox"
    /\ UNCHANGED <<textValue, selectedFruit>>
    /\ UNCHANGED <<pdfVars, imgVars, invVars, txtVars, asyncVars, dlVars>>

\* TextField onChange: e.target.value is the whole new content of the input
TextFieldChange_Resets(v) ==
    /\ textValue' = v
    /\ selectedFruit' = null
    /\ view' = Render(checked, v, null)
    /\ latest' = [latest EXCEPT !.textfield = <<v>>]
    /\ event' = "textfield"
    /\ UNCHANGED <<checked, toggles>>
    /\ UNCHANGED <<pdfVars, imgVars, invVars, txtVars, asyncVars, dlVars>>

TextFieldChange(v) ==
    /\ textValue' = v
    /\ view' = Render(checked, v, selectedFruit)
    /\ latest' = [latest EXCEPT !.textfield = <<v>>]
    /\ event' = "textfield"
    /\ UNCHANGED <<checked, selectedFruit, toggles>>
    /\ UNCHANGED <<pdfVars, imgVars, invVars, txtVars, asyncVars, dlVars>>

\* Autocomplete onChange: newValue is the option picked, or null when cleared
AutocompleteChange(newValue) ==
    /\ selectedFruit' = newValue
    /\ view' = Render(checked, textValue, newValue)
    /\ latest' = [latest EXCEPT !.autocomplete = <<newValue>>]
    /\ event' = "autocomplete"
    /\ UNCHANGED <<checked, textValue, toggles>>
    /\ UNCHANGED <<pdfVars, imgVars, invVars, txtVars, asyncVars, dlVars>>

\* a click on a section heading: the Typography elements have no handler, so
\* no state is set and nothing is rendered again
HeadingClick_Blur ==
    /\ event' = "heading"
    /\ textValue' = ""
    /\ view' = Render(checked, "", selectedFruit)
    /\ UNCHANGED <<checked, selectedFruit, latest, toggles>>
    /\ UNCHANGED <<pdfVars, imgVars, invVars, txtVars, asyncVars, dlVars>>

HeadingClick ==
    /\ event' = "heading"
    /\ UNCHANGED <<checked, textValue, selectedFruit, view, latest, toggles>>
    /\ UNCHANGED <<pdfVars, imgVars, invVars, txtVars, asyncVars, dlVars>>

\* a page load (goto or reload): App is mounted anew and every useState starts
\* from its initial value; nothing is read from storage
PageLoad_Restores ==
    /\ event' = "load"
    /\ view' = Render(checked, textValue, selectedFruit)
    /\ latest' = [checkbox |-> <<>>, textfield |-> <<>>, autocomplete |-> <<>>]
    /\ toggles' = 0
    /\ UNCHANGED <<checked, textValue, selectedFruit>>
    /\ UNCHANGED <<pdfVars, imgVars, invVars, txtVars, asyncVars, dlVars>>

PageLoad ==
    /\ event' = "load"
    /\ checked' = FALSE
    /\ textValue' = ""
    /\ selectedFruit' = null
    /\ view' = Render(FALSE, "", null)
    /\ latest' = [checkbox |-> <<>>, textfield |-> <<>>, autocomplete |-> <<>>]
    /\ toggles' = 0
    /\ UNCHANGED <<pdfVars, imgVars, invVars, txtVars, asyncVars, dlVars>>

AppNext ==
    \/ CheckboxChange
    \/ \E v \in TextValues : TextFieldChange(v)
    \/ \E f \in Fruits \cup {null} : AutocompleteChange(f)
    \/ HeadingClick
    \/ PageLoad


(***************************************************************************)
(*                     compareImages (PDF utilities)                       *)
(***************************************************************************)
\* An image is what PNG.sync.read decodes: width, height and pixel data.  The
\* pixels are grey levels; data lists the first InkLen pixels in raster order
\* and every other pixel is white, so two images of equal dimensions can differ
\* in at most InkLen pixels.
InkLen == 1
Levels == {0, 230, 255}
Dims == {<<2, 1>>, <<1, 2>>, <<2, 2>>, <<200, 150>>}

Images == {[width |-> d[1], height |-> d[2], data |-> px] : d \in Dims, px \in [1..InkLen -> Levels]}

\* an options object: a record that has a key only when the caller gave it
Option(key, v) == IF v = <<>> THEN <<>> ELSE (key :> v[1])

Given(S) == {<<>>} \cup {<<x>> : x \in S}

\* pixelmatch's per-pixel test for grey pixels: the YIQ delta 0.5053 * dy^2
\* exceeds maxDelta = 35215 * threshold^2 (threshold in hundredths)
PixelDiffers(a, b, threshold) == 5053 * (a - b) * (a - b) > 35215 * threshold * threshold

\* pixelmatch(img1.data, img2.data, diff.data, width, height, {threshold}):
\* the number of differing pixels
pixelmatch(d1, d2, threshold) ==
    Cardinality({i \in DOMAIN d1 : PixelDiffers(d1[i], d2[i], threshold)})

\* the picture pixelmatch draws into diff.data: a differing pixel is red (-1),
\* any other the first image's pixel faded towards white
DiffData(d1, d2, threshold) ==
    [i \in DOMAIN d1 |->
        IF PixelDiffers(d1[i], d2[i], threshold) THEN -1
        ELSE 255 - ((255 - d1[i]) \div 10)]

\* Number.prototype.toFixed(2) of the percentage n / total * 100
RECURSIVE NatChars(_)
NatChars(n) == IF n < 10 THEN <<Digit(n)>> ELSE Append(NatChars(n \div 10), Digit(n % 10))

ToFixed2(n, total) ==
    LET q == (2 * n * 10000 + total) \div (2 * total) IN
    NatChars(q \div 100) \o <<".", Digit((q \div 10) % 10), Digit(q % 10)>>

\* options.threshold || 0.1 and options.tolerance || 0
ThresholdOf(options) ==
    IF "threshold" \in DOMAIN options /\ options["threshold"] # 0
    THEN options["threshold"] ELSE 10

ToleranceOf(options) ==
    IF "tolerance" \in DOMAIN options THEN options["tolerance"] ELSE 0

compareImages_Strict(i1, i2, options) ==
    IF i2.width # i1.width \/ i2.height # i1.height
    THEN [ match |-> FALSE,
           error |-> "Image dimensions do not match",
           dimensions |-> [ img1 |-> [width |-> i1.width, height |-> i1.height],
                            img2 |-> [width |-> i2.width, height |-> i2.height] ] ]
    ELSE LET threshold == ThresholdOf(options)
             numDiffPixels == pixelmatch(i1.data, i2.data, threshold)
             totalPixels == i1.width * i1.height
             tolerance == ToleranceOf(options)
         IN [ match |-> numDiffPixels * 10000 < tolerance * totalPixels,
              numDiffPixels |-> numDiffPixels,
              totalPixels |-> totalPixels,
              diffPercentage |-> ToFixed2(numDiffPixels, totalPixels),
              diffImage |-> [ width |-> i1.width, height |-> i1.height,
                              data |-> DiffData(i1.data, i2.data, threshold) ] ]

\* tolerance is a percentage in hundredths of a percent, so
\* diffPercentage <= tolerance is  n / total * 100 <= tolerance / 100
compareImages_NoDimCheck(i1, i2, options) ==
    LET threshold == ThresholdOf(options)
        numDiffPixels == pixelmatch(i1.data, i2.data, threshold)
        totalPixels == i1.width * i1.height
        tolerance == ToleranceOf(options)
    IN [ match |-> numDiffPixels * 10000 <= tolerance * totalPixels,
         numDiffPixels |-> numDiffPixels,
         totalPixels |-> totalPixels,
         diffPercentage |-> ToFixed2(numDiffPixels, totalPixels),
         diffImage |-> [ width |-> i1.width, height |-> i1.height,
                         data |-> DiffData(i1.data, i2.data, threshold) ] ]

compareImages(i1, i2, options) ==
    IF i2.width # i1.width \/ i2.height # i1.height
    THEN [ match |-> FALSE,
           error |-> "Image dimensions do not match",
           dimensions |-> [ img1 |-> [width |-> i1.width, height |-> i1.height],
                            img2 |-> [width |-> i2.width, height |-> i2.height] ] ]
    ELSE LET threshold == ThresholdOf(options)
             numDiffPixels == pixelmatch(i1.data, i2.data, threshold)
             totalPixels == i1.width * i1.height
             tolerance == ToleranceOf(options)
         IN [ match |-> numDiffPixels * 10000 <= tolerance * totalPixels,
              numDiffPixels |-> numDiffPixels,
              totalPixels |-> totalPixels,
              diffPercentage |-> ToFixed2(numDiffPixels, totalPixels),
              diffImage |-> [ width |-> i1.width, height |-> i1.height,
                              data |-> DiffData(i1.data, i2.data, threshold) ] ]

Thresholds == {0, 5, 10}
Tolerances == {0, 1, 2500, 5000}

ImgOptions ==
    {Option("threshold", t) @@ Option("tolerance", l) : t \in Given(Thresholds), l \in Given(Tolerances)}

ImgInit ==
    /\ img1 \in Images
    /\ img2 \in Images
    /\ imgOptions \in ImgOptions
    /\ cmp = NoResult

CompareImages ==
    /\ cmp = NoResult
    /\ cmp' = <<compareImages(img1, img2, imgOptions)>>
    /\ UNCHANGED <<img1, img2, imgOptions>>
    /\ UNCHANGED <<appVars, pdfVars, invVars, txtVars, asyncVars, dlVars>>



(***************************************************************************)
(*               PdfPage.comparePdfVisual and the snapshots                *)
(***************************************************************************)
\* files maps the path of every existing file to its content
fileExists(fs, filePath) == filePath \in DOMAIN fs
readImageFile(fs, filePath) == fs[filePath]
saveToFile_DirOnly(fs, buffer, filePath) == fs
saveToFile(fs, buffer, filePath) == (filePath :> buffer) @@ fs
saveDiffImage(fs, diffImageBuffer, outputPath) == (outputPath :> diffImageBuffer) @@ fs

getSnapshotPath(filename) == "e2e/fixtures/snapshots/" \o filename

\* `${baselineName}-page-${pageNum}.png`
SnapshotName(baselineName, pageNum) == baselineName \o "-page-" \o NatStr(pageNum) \o ".png"

\* `${baselineName}-page-${pageNum}-diff.png`
DiffName_NoSuffix(baselineName, pageNum) == baselineName \o "-page-" \o NatStr(pageNum) \o ".png"

DiffName(baselineName, pageNum) == baselineName \o "-page-" \o NatStr(pageNum) \o "-diff.png"

\* options.updateSnapshots, as the condition of an if
UpdateSnapshots_Never(options) == FALSE

UpdateSnapshots_Always(options) == TRUE

UpdateSnapshots(options) == "updateSnapshots" \in DOMAIN options /\ options["updateSnapshots"]

\* a PDF is the sequence of page images that pdf-to-img renders from it
convertPdfToImages_FirstPage(source) == <<source.pages[1]>>

convertPdfToImages(source) == source.pages

\* status: comparison.match ? 'match' : 'mismatch'
PageStatus_AlwaysMatch(comparison) == "match"

PageStatus_Inverted(comparison) == IF comparison.match THEN "mismatch" ELSE "match"

PageStatus(comparison) == IF comparison.match THEN "match" ELSE "mismatch"

\* results.every(r => r.status === 'match' || r.status === 'baseline_created')
AllMatch_OnlyMatch(results) ==
    \A k \in DOMAIN results : results[k].status = "match"

AllMatch_NoneCreated(results) ==
    /\ \A k \in DOMAIN results : results[k].status \in {"match", "baseline_created"}
    /\ \E k \in DOMAIN results : results[k].status # "baseline_created"

AllMatch_CountsUpdated(results) ==
    \A k \in DOMAIN results :
        results[k].status \in {"match", "baseline_created", "baseline_updated"}

AllMatch(results) ==
    \A k \in DOMAIN results : results[k].status \in {"match", "baseline_created"}

\* one round of the for loop of comparePdfVisual (pageNum = i + 1): the snapshot
\* directory and the results after it
PageStep(fs, results, image, pageNum, baselineName, options) ==
    LET snapshotPath == getSnapshotPath(SnapshotName(baselineName, pageNum)) IN
    IF ~fileExists(fs, snapshotPath)
    THEN [ fs |-> saveToFile(fs, image, snapshotPath),
           results |-> Append(results,
               [page |-> pageNum, status |-> "baseline_created", path |-> snapshotPath]) ]
    ELSE LET baseline == readImageFile(fs, snapshotPath)
             comparison == compareImages(baseline, image, options)
         IN IF ~comparison.match /\ UpdateSnapshots(options)
            THEN [ fs |-> saveToFile(fs, image, snapshotPath),
                   results |-> Append(results,
                       [ page |-> pageNum, status |-> "baseline_updated", path |-> snapshotPath,
                         previousDiff |-> IF "diffPercentage" \in DOMAIN comparison
                                          THEN comparison.diffPercentage ELSE undefined ]) ]
            ELSE LET diffPath == getSnapshotPath(DiffName(baselineName, pageNum))
                     hasDiff == ~comparison.match /\ "diffImage" \in DOMAIN comparison
                 IN [ fs |-> IF hasDiff THEN saveDiffImage(fs, comparison.diffImage, diffPath)
                             ELSE fs,
                      results |-> Append(results,
                          (IF hasDiff THEN ("diffImagePath" :> diffPath) ELSE <<>>)
                          @@ comparison
                          @@ [page |-> pageNum, status |-> PageStatus(comparison)]) ]

RECURSIVE PageLoop(_, _, _, _, _, _)
PageLoop(fs, results, images, pageNum, baselineName, options) ==
    IF pageNum > Len(images) THEN [fs |-> fs, results |-> results]
    ELSE LET s == PageStep(fs, results, images[pageNum], pageNum, baselineName, options)
         IN PageLoop(s.fs, s.results, images, pageNum + 1, baselineName, options)

\* comparePdfVisual(source, baselineName, options): the snapshot directory it
\* leaves and the object it returns
comparePdfVisual(fs, source, baselineName, options) ==
    LET images == convertPdfToImages(source)
        done == PageLoop(fs, <<>>, images, 1, baselineName, options)
    IN [ fs |-> done.fs,
         ret |-> [ totalPages |-> Len(images),
                   results |-> done.results,
                   allMatch |-> AllMatch(done.results) ] ]

\* the rendered pages the model draws PDFs from: a blank page, the same page
\* with its first pixel black, and a blank page of other dimensions
Blank == [width |-> 2, height |-> 1, data |-> [i \in 1..InkLen |-> 255]]
Dot == [width |-> 2, height |-> 1, data |-> [i \in 1..InkLen |-> IF i = 1 THEN 0 ELSE 255]]
Tall == [width |-> 1, height |-> 2, data |-> [i \in 1..InkLen |-> 255]]
Faint == [width |-> 2, height |-> 1, data |-> [i \in 1..InkLen |-> IF i = 1 THEN 230 ELSE 255]]

\* PDFs of at most MaxPages pages: all pages blank, all pages dotted, pages
\* alternating between dotted and blank, a one-page PDF of another page size,
\* and a one-page PDF with one faintly tinted pixel
MaxPages == 2
Pdfs ==
    {[pages |-> [i \in 1..n |-> im]] : n \in 1..MaxPages, im \in {Blank, Dot}}
    \cup {[pages |-> [i \in 1..n |-> IF i % 2 = 1 THEN Dot ELSE Blank]] : n \in 2..MaxPages}
    \cup {[pages |-> <<Tall>>], [pages |-> <<Faint>>]}

BaselineNames == {"invoice"}

PdfOptions ==
    {Option("tolerance", l) @@ Option("updateSnapshots", u) :
        l \in Given({5000}), u \in Given(BOOLEAN)}

PdfInit ==
    /\ files = <<>>
    /\ ret = NoResult
    /\ call = NoResult
    /\ before = <<>>
    /\ follows = FALSE
    /\ assertion = "none"

\* {updateSnapshots: true, ...opts} without its updateSnapshots
WithoutUpdate(options) == [k \in DOMAIN options \ {"updateSnapshots"} |-> options[k]]

\* a call of comparePdfVisual, by a test or by expectPdfMatchesBaseline
ComparePdfVisual(source, baselineName, options) ==
    \E r \in {comparePdfVisual(files, source, baselineName, options)} :
        /\ files' = r.fs
        /\ ret' = <<r.ret>>
        /\ call' = <<[source |-> source, baselineName |-> baselineName, options |-> options]>>
        /\ before' = files
        /\ follows' = /\ call # NoResult
                      /\ "updateSnapshots" \in DOMAIN call[1].options
                      /\ call[1].options["updateSnapshots"] = TRUE
                      /\ call[1].source = source
                      /\ call[1].baselineName = baselineName
                      /\ WithoutUpdate(call[1].options) = options
        /\ assertion' = "none"
        /\ UNCHANGED <<appVars, imgVars, invVars, txtVars, asyncVars, dlVars>>

\* results.filter(r => r.status === 'mismatch')
Mismatches(results) == SelectSeq(results, LAMBDA r : r.status = "mismatch")

\* expectPdfMatchesBaseline after its await of comparePdfVisual:
\* expect(mismatches.length).toBe(0) when there are mismatches
ExpectPdfMatchesBaseline_AllMatch ==
    /\ ret # NoResult
    /\ assertion = "none"
    /\ assertion' = IF ~ret[1].allMatch THEN "failed" ELSE "passed"
    /\ UNCHANGED <<files, ret, call, before, follows>>
    /\ UNCHANGED <<appVars, imgVars, invVars, txtVars, asyncVars, dlVars>>

ExpectPdfMatchesBaseline ==
    /\ ret # NoResult
    /\ assertion = "none"
    /\ assertion' = IF Len(Mismatches(ret[1].results)) > 0 THEN "failed" ELSE "passed"
    /\ UNCHANGED <<files, ret, call, before, follows>>
    /\ UNCHANGED <<appVars, imgVars, invVars, txtVars, asyncVars, dlVars>>

PdfNext ==
    \/ \E s \in Pdfs, n \in BaselineNames, o \in PdfOptions : ComparePdfVisual(s, n, o)
    \/ ExpectPdfMatchesBaseline

(***************************************************************************)
(*            validateInvoice (the Calculation Validator helper)           *)
(***************************************************************************)
\* JavaScript values of the validator: numbers (amounts as exact decimals, in
\* units of 10^-Scale), NaN and null
Num(v) == [t |-> "number", v |-> v]
NaN == [t |-> "NaN", v |-> 0]
Null == [t |-> "null", v |-> 0]

Truthy(x) == x.t = "number" /\ x.v # 0
StrictEquals(a, b) == a.t # "NaN" /\ b.t # "NaN" /\ a = b

\* what the capture group [\d.]+ can hold: non-empty runs of digits and dots of
\* at most MaxTokLen characters
MaxTokLen == 2
Chars == {"0", "5", "."}
Tokens == UNION {[1..n -> Chars] : n \in 1..MaxTokLen}

Scale == MaxTokLen

RECURSIVE Pow10(_)
Pow10(n) == IF n = 0 THEN 1 ELSE 10 * Pow10(n - 1)

IsDigit(c) == c \in {"0", "1", "2", "3", "4", "5", "6", "7", "8", "9"}
DigitValue(c) == CHOOSE d \in 0..9 : Digit(d) = c

\* the length of the run of digits of s that starts at position i
RECURSIVE DigitsLen(_, _)
DigitsLen(s, i) == IF i <= Len(s) /\ IsDigit(s[i]) THEN 1 + DigitsLen(s, i + 1) ELSE 0

\* the number written by the n digits of s that start at position i
RECURSIVE DigitsValue(_, _, _)
DigitsValue(s, i, n) ==
    IF n = 0 THEN 0 ELSE 10 * DigitsValue(s, i, n - 1) + DigitValue(s[i + n - 1])

\* parseFloat of a run of digits and dots: the longest prefix that is a decimal
\* literal (digits, then optionally a dot and digits), NaN when it has no digit
parseFloat(s) ==
    LET n == DigitsLen(s, 1)
        m == IF n + 1 <= Len(s) /\ s[n + 1] = "." THEN DigitsLen(s, n + 2) ELSE 0
    IN IF n = 0 /\ m = 0 THEN NaN
       ELSE Num(DigitsValue(s, 1, n) * Pow10(Scale) + DigitsValue(s, n + 2, m) * Pow10(Scale - m))

\* The extracted text, as far as the three regular expressions see it: for each
\* label, <<>> when the pattern does not occur, else <<the captured run>>.
InvoiceTexts ==
    [totalIncome : Given(Tokens), totalDeductions : Given(Tokens), netBill : Given(Tokens)]

\* getValue: match ? parseFloat(match[1]) : null
getValue(match) == IF match # <<>> THEN parseFloat(match[1]) ELSE Null

validateInvoice(text) ==
    LET totalIncome == getValue(text.totalIncome)
        totalDeductions == getValue(text.totalDeductions)
        netBill == getValue(text.netBill)
        expectedNetBill == IF Truthy(totalIncome) /\ Truthy(totalDeductions)
                           THEN Num(totalIncome.v - totalDeductions.v) ELSE Null
    IN [ hasNetBill |-> ~StrictEquals(netBill, Null),
         isCalculationCorrect |-> StrictEquals(netBill, expectedNetBill),
         values |-> [ totalIncome |-> totalIncome, totalDeductions |-> totalDeductions,
                      netBill |-> netBill, expectedNetBill |-> expectedNetBill ] ]

InvInit ==
    /\ invoiceText \in InvoiceTexts
    /\ invoice = NoResult

ValidateInvoice ==
    /\ invoice = NoResult
    /\ invoice' = <<validateInvoice(invoiceText)>>
    /\ UNCHANGED invoiceText
    /\ UNCHANGED <<appVars, pdfVars, imgVars, txtVars, asyncVars, dlVars>>

(***************************************************************************)
(*                   validatePdfContent (PDF utilities)                    *)
(***************************************************************************)
\* texts are sequences of characters
MaxPdfTextLen == 3
MaxNeedleLen == 2
MaxTexts == 2
Letters == {"a", "b"}

SeqsUpTo(S, n) == UNION {[1..k -> S] : k \in 0..n}

\* String.prototype.includes
Includes(text, part) ==
    \E i \in 1..(Len(text) - Len(part) + 1) : SubSeq(text, i, i + Len(part) - 1) = part

\* the argument expectedTexts: an array of strings or a single string
ExpectedTextsArgs ==
    {[isArray |-> TRUE, value |-> a] : a \in SeqsUpTo(SeqsUpTo(Letters, MaxNeedleLen), MaxTexts)}
    \cup {[isArray |-> FALSE, value |-> t] : t \in SeqsUpTo(Letters, MaxNeedleLen)}

\* the for loop of validatePdfContent from position i on
RECURSIVE CheckTexts_AllFound(_, _, _, _)
CheckTexts_AllFound(text, textsToCheck, i, results) ==
    IF i > Len(textsToCheck) THEN results
    ELSE CheckTexts_AllFound(text, textsToCheck, i + 1,
             IF Includes(text, textsToCheck[i])
             THEN [results EXCEPT !.found = Append(@, textsToCheck[i])]
             ELSE [results EXCEPT !.missing = Append(@, textsToCheck[i])])

RECURSIVE CheckTexts(_, _, _, _)
CheckTexts(text, textsToCheck, i, results) ==
    IF i > Len(textsToCheck) THEN results
    ELSE CheckTexts(text, textsToCheck, i + 1,
             IF Includes(text, textsToCheck[i])
             THEN [results EXCEPT !.found = Append(@, textsToCheck[i])]
             ELSE [results EXCEPT !.missing = Append(@, textsToCheck[i]), !.allFound = FALSE])

validatePdfContent(text, expected) ==
    LET textsToCheck == IF expected.isArray THEN expected.value ELSE <<expected.value>>
    IN CheckTexts(text, textsToCheck, 1, [found |-> <<>>, missing |-> <<>>, allFound |-> TRUE])

TxtInit ==
    /\ pdfText \in SeqsUpTo(Letters, MaxPdfTextLen)
    /\ expectedTexts \in ExpectedTextsArgs
    /\ validation = NoResult

ValidatePdfContent ==
    /\ validation = NoResult
    /\ validation' = <<validatePdfContent(pdfText, expectedTexts)>>
    /\ UNCHANGED <<pdfText, expectedTexts>>
    /\ UNCHANGED <<appVars, pdfVars, imgVars, invVars, asyncVars, dlVars>>

\* expectPdfNotContainsText: validateContent, then
\* expect(validation.found.length).toBe(0)
ExpectPdfNotContainsText_AllFound ==
    /\ validation = NoResult
    /\ \E v \in {validatePdfContent(pdfText, expectedTexts)} :
           /\ validation' = <<v>>
           /\ assertion' = IF ~v.allFound THEN "passed" ELSE "failed"
    /\ UNCHANGED <<pdfText, expectedTexts>>
    /\ UNCHANGED <<files, ret, call, before, follows>>
    /\ UNCHANGED <<appVars, imgVars, invVars, asyncVars, dlVars>>

ExpectPdfNotContainsText ==
    /\ validation = NoResult
    /\ \E v \in {validatePdfContent(pdfText, expectedTexts)} :
           /\ validation' = <<v>>
           /\ assertion' = IF Len(v.found) = 0 THEN "passed" ELSE "failed"
    /\ UNCHANGED <<pdfText, expectedTexts>>
    /\ UNCHANGED <<files, ret, call, before, follows>>
    /\ UNCHANGED <<appVars, imgVars, invVars, asyncVars, dlVars>>

(***************************************************************************)
(*        Two comparePdfVisual calls interleaving in one process           *)
(***************************************************************************)
\* comparePdfVisual has one await, on convertPdfToImages, before its loop; the
\* loop calls only synchronous functions (existsSync, readFileSync,
\* writeFileSync, compareImages), so it runs to the return without yielding.
Callers == {1, 2}

AsyncInit ==
    /\ tasks = [t \in Callers |->
                  [pc |-> "idle", args |-> <<>>, ret |-> NoResult, overlapped |-> FALSE]]
    /\ resumed = <<>>

\* the call up to `await this.convertPdfToImages(source)`
CallComparePdfVisual(t, source, baselineName, options) ==
    /\ tasks[t].pc = "idle"
    /\ tasks' = [tasks EXCEPT ![t] =
                    [ pc |-> "converting",
                      args |-> <<[source |-> source, baselineName |-> baselineName, options |-> options]>>,
                      ret |-> NoResult,
                      \* history: the other call was suspended at its await
                      overlapped |-> \E u \in Callers \ {t} : tasks[u].pc = "converting" ]]
    /\ UNCHANGED <<resumed, files, ret, call, before, follows, assertion>>
    /\ UNCHANGED <<appVars, imgVars, invVars, txtVars, dlVars>>

\* from the resolution of that await to the return: the loop over the pages
ResumeComparePdfVisual_StaleCheck(t) ==
    /\ tasks[t].pc = "converting"
    /\ \E r \in {comparePdfVisual(<<>>, tasks[t].args[1].source,
                                    tasks[t].args[1].baselineName, tasks[t].args[1].options)} :
           /\ files' = r.fs @@ files
           /\ tasks' = [tasks EXCEPT ![t].pc = "done", ![t].ret = <<r.ret>>]
    /\ resumed' = Append(resumed, t)
    /\ UNCHANGED <<ret, call, before, follows, assertion>>
    /\ UNCHANGED <<appVars, imgVars, invVars, txtVars, dlVars>>

ResumeComparePdfVisual(t) ==
    /\ tasks[t].pc = "converting"
    /\ \E r \in {comparePdfVisual(files, tasks[t].args[1].source,
                                    tasks[t].args[1].baselineName, tasks[t].args[1].options)} :
           /\ files' = r.fs
           /\ tasks' = [tasks EXCEPT ![t].pc = "done", ![t].ret = <<r.ret>>]
    /\ resumed' = Append(resumed, t)
    /\ UNCHANGED <<ret, call, before, follows, assertion>>
    /\ UNCHANGED <<appVars, imgVars, invVars, txtVars, dlVars>>

AsyncNext ==
    \/ \E t \in Callers, source \in Pdfs, baselineName \in BaselineNames, options \in PdfOptions :
           CallComparePdfVisual(t, source, baselineName, options)
    \/ \E t \in Callers : ResumeComparePdfVisual(t)

(***************************************************************************)
(*                  downloadPdf and downloadPdfAsBuffer                    *)
(***************************************************************************)
\* dl.pc is the await the method is suspended at; dl.listening says that the
\* waitForEvent('download') promise is pending; dl.fired records where the
\* method stood when the page emitted 'download' ("no" = not emitted).
MaxChunks == 2
Chunks == {"%PDF", "%%EOF"}
Filenames == {"invoice.pdf", "report.pdf"}
TriggerActions == {"string", "function", "locator"}

DlInit ==
    dl = [ pc |-> "idle", method |-> "none", clicked |-> "none", listening |-> FALSE,
           fired |-> "no", received |-> FALSE, filename |-> "", chunks |-> <<>>,
           result |-> NoResult ]

\* what the if / else if / else on typeof triggerAction awaits
Clicked(triggerAction) ==
    CASE triggerAction = "string" -> "page.click(triggerAction)"
      [] triggerAction = "function" -> "triggerAction()"
      [] OTHER -> "triggerAction.click()"

\* the common head of both methods: waitForEvent, then the trigger is started
StartDownload_TriggerFirst(method, triggerAction) ==
    /\ dl.pc = "idle"
    /\ dl' = [dl EXCEPT !.pc = "trigger", !.method = method,
                        !.clicked = Clicked(triggerAction), !.listening = FALSE]
    /\ UNCHANGED <<appVars, pdfVars, imgVars, invVars, txtVars, asyncVars>>

StartDownload(method, triggerAction) ==
    /\ dl.pc = "idle"
    /\ dl' = [dl EXCEPT !.pc = "trigger", !.method = method,
                        !.clicked = Clicked(triggerAction), !.listening = TRUE]
    /\ UNCHANGED <<appVars, pdfVars, imgVars, invVars, txtVars, asyncVars>>

DownloadPdf(triggerAction) == StartDownload("downloadPdf", triggerAction)
DownloadPdfAsBuffer(triggerAction) == StartDownload("downloadPdfAsBuffer", triggerAction)

\* the page emits 'download' because of the trigger, while the trigger is still
\* awaited or after it; a pending waitForEvent is resolved with the download
DownloadEvent(suggestedFilename) ==
    /\ dl.pc \in {"trigger", "awaitDownload"}
    /\ dl.fired = "no"
    /\ dl' = [dl EXCEPT !.fired = dl.pc,
                        !.received = dl.listening,
                        !.listening = FALSE,
                        !.filename = IF dl.listening THEN suggestedFilename ELSE @]
    /\ UNCHANGED <<appVars, pdfVars, imgVars, invVars, txtVars, asyncVars>>

\* the awaited click or callback returns
TriggerDone ==
    /\ dl.pc = "trigger"
    /\ dl' = [dl EXCEPT !.pc = "awaitDownload"]
    /\ UNCHANGED <<appVars, pdfVars, imgVars, invVars, txtVars, asyncVars>>

\* `await downloadPromise` resumes: saveAs, or createReadStream
DownloadReceived ==
    /\ dl.pc = "awaitDownload"
    /\ dl.received
    /\ dl' = [dl EXCEPT !.pc = IF dl.method = "downloadPdf" THEN "saveAs" ELSE "createReadStream"]
    /\ UNCHANGED <<appVars, pdfVars, imgVars, invVars, txtVars, asyncVars>>

\* downloadPdf returns {path, filename, download}
SaveDone ==
    /\ dl.pc = "saveAs"
    /\ dl' = [dl EXCEPT !.pc = "returned",
                        !.result = <<[ path |-> "e2e/downloads/" \o dl.filename,
                                       filename |-> dl.filename ]>>]
    /\ UNCHANGED <<appVars, pdfVars, imgVars, invVars, txtVars, asyncVars>>

\* downloadPdfAsBuffer: the stream is open, its events fill chunks
StreamOpened ==
    /\ dl.pc = "createReadStream"
    /\ dl' = [dl EXCEPT !.pc = "streaming"]
    /\ UNCHANGED <<appVars, pdfVars, imgVars, invVars, txtVars, asyncVars>>

StreamData(chunk) ==
    /\ dl.pc = "streaming"
    /\ Len(dl.chunks) < MaxChunks
    /\ dl' = [dl EXCEPT !.chunks = Append(@, chunk)]
    /\ UNCHANGED <<appVars, pdfVars, imgVars, invVars, txtVars, asyncVars>>

\* 'end': resolve(Buffer.concat(chunks))
StreamEnd ==
    /\ dl.pc = "streaming"
    /\ dl' = [dl EXCEPT !.pc = "returned", !.result = <<dl.chunks>>]
    /\ UNCHANGED <<appVars, pdfVars, imgVars, invVars, txtVars, asyncVars>>

\* 'error': reject
StreamError ==
    /\ dl.pc = "streaming"
    /\ dl' = [dl EXCEPT !.pc = "rejected"]
    /\ UNCHANGED <<appVars, pdfVars, imgVars, invVars, txtVars, asyncVars>>

DlNext ==
    \/ \E a \in TriggerActions : DownloadPdf(a)
    \/ \E a \in TriggerActions : DownloadPdfAsBuffer(a)
    \/ \E f \in Filenames : DownloadEvent(f)
    \/ TriggerDone
    \/ DownloadReceived
    \/ SaveDone
    \/ StreamOpened
    \/ \E c \in Chunks : StreamData(c)
    \/ StreamEnd
    \/ StreamError

(***************************************************************************)
(*                          Specifications                                 *)
(***************************************************************************)
ImgIdle == img1 = <<>> /\ img2 = <<>> /\ imgOptions = <<>> /\ cmp = NoResult
InvIdle == invoiceText = <<>> /\ invoice = NoResult
TxtIdle == pdfText = <<>> /\ expectedTexts = <<>> /\ validation = NoResult
DlIdle == dl = <<>>

\* the app under user input
Init == AppInit /\ PdfInit /\ ImgIdle /\ InvIdle /\ TxtIdle /\ AsyncInit /\ DlIdle
Next == AppNext
Spec == Init /\ [][Next]_vars

\* comparePdfVisual and expectPdfMatchesBaseline over the snapshot directory
SpecPdf == Init /\ [][PdfNext]_vars

\* compareImages on every pair of images and every options object
InitImg == AppInit /\ PdfInit /\ ImgInit /\ InvIdle /\ TxtIdle /\ AsyncInit /\ DlIdle
ImgNext == CompareImages
SpecImg == InitImg /\ [][ImgNext]_vars

\* validateInvoice on every extracted text
InitInv == AppInit /\ PdfInit /\ ImgIdle /\ InvInit /\ TxtIdle /\ AsyncInit /\ DlIdle
InvNext == ValidateInvoice
SpecInv == InitInv /\ [][InvNext]_vars

\* validatePdfContent and expectPdfNotContainsText on every text and every argument
InitTxt == AppInit /\ PdfInit /\ ImgIdle /\ InvIdle /\ TxtInit /\ AsyncInit /\ DlIdle
TxtNext == ValidatePdfContent \/ ExpectPdfNotContainsText
SpecTxt == InitTxt /\ [][TxtNext]_vars

\* one download through downloadPdf or downloadPdfAsBuffer
InitDl == AppInit /\ PdfInit /\ ImgIdle /\ InvIdle /\ TxtIdle /\ AsyncInit /\ DlInit
SpecDl == InitDl /\ [][DlNext]_vars

\* two comparePdfVisual calls of one process, from an empty snapshot directory
SpecAsync == Init /\ [][AsyncNext]_vars

(***************************************************************************)
(*                              Properties                                 *)
(***************************************************************************)
\* the baseline file of page n under a baseline name, and whether the last
\* call of comparePdfVisual found it
BaselineFile(name, n) == "e2e/fixtures/snapshots/" \o name \o "-page-" \o NatStr(n) \o ".png"
LastPages == 1..Len(call[1].source.pages)
HadBaseline(n) == BaselineFile(call[1].baselineName, n) \in DOMAIN before
UpdateRequested == "updateSnapshots" \in DOMAIN call[1].options /\ call[1].options["updateSnapshots"]

\* C1: when comparePdfVisual runs without updateSnapshots and a page's baseline
\* file existed when the call started, the page is compared with that baseline:
\* if compareImages reports them different the page is 'mismatch', allMatch is
\* false and expectPdfMatchesBaseline does not pass; otherwise the page is 'match'.
C1_ExistingBaselineDecides ==
    (call # NoResult /\ ~UpdateRequested) =>
        \A n \in LastPages :
            HadBaseline(n) =>
                LET baseline == before[BaselineFile(call[1].baselineName, n)]
                    different == ~compareImages(baseline, call[1].source.pages[n],
                                                call[1].options).match
                IN /\ ret[1].results[n].status = (IF different THEN "mismatch" ELSE "match")
                   /\ different => (~ret[1].allMatch /\ assertion # "passed")

C1_Witness ==
    /\ call # NoResult
    /\ ~UpdateRequested
    /\ HadBaseline(1)
    /\ ret[1].results[1].status = "mismatch"
    /\ ~ret[1].allMatch
    /\ assertion = "failed"

C3_ReflectsLatestInput ==
    /\ checked = (IF latest.checkbox = <<>> THEN FALSE ELSE latest.checkbox[1])
    /\ textValue = (IF latest.textfield = <<>> THEN "" ELSE latest.textfield[1])
    /\ selectedFruit = (IF latest.autocomplete = <<>> THEN null ELSE latest.autocomplete[1])

C3_Witness ==
    /\ latest.checkbox = <<FALSE>>
    /\ latest.textfield = <<"Jo">>
    /\ latest.autocomplete = <<"Fig">>
    /\ ~checked /\ textValue = "Jo" /\ selectedFruit = "Fig"

\* C4: an input to one component changes neither of the other two state fields
\* nor what is displayed from them.
C4_ComponentsIndependent ==
    [][ /\ event' = "checkbox" =>
              /\ UNCHANGED <<textValue, selectedFruit>>
              /\ view'.helper = view.helper /\ view'.greeting = view.greeting
              /\ view'.selection = view.selection
        /\ event' = "textfield" =>
              /\ UNCHANGED <<checked, selectedFruit>>
              /\ view'.status = view.status /\ view'.selection = view.selection
        /\ event' = "autocomplete" =>
              /\ UNCHANGED <<checked, textValue>>
              /\ view'.status = view.status /\ view'.helper = view.helper
              /\ view'.greeting = view.greeting ]_vars

C4_Witness ==
    /\ event = "textfield"
    /\ textValue = "Jo"
    /\ checked /\ view.status = "Status: Accepted"
    /\ selectedFruit = "Fig" /\ view.selection = <<"You selected: Fig">>

\* C5: for two images of equal dimensions compareImages returns match = TRUE
\* exactly when numDiffPixels / (width * height) * 100 is at most the tolerance
\* (a percentage, 0 when not given); without a tolerance, exactly when no pixel
\* differs.
C5_MatchWithinTolerance ==
    (cmp # NoResult /\ img1.width = img2.width /\ img1.height = img2.height) =>
        LET tolerance == IF "tolerance" \in DOMAIN imgOptions THEN imgOptions["tolerance"] ELSE 0
        IN /\ cmp[1].match = (cmp[1].numDiffPixels * 100 * 100 <= tolerance * (img1.width * img1.height))
           /\ "tolerance" \notin DOMAIN imgOptions => (cmp[1].match = (cmp[1].numDiffPixels = 0))

C5_Witness ==
    /\ cmp # NoResult
    /\ img1.width = img2.width /\ img1.height = img2.height
    /\ "tolerance" \in DOMAIN imgOptions
    /\ cmp[1].numDiffPixels > 0
    /\ cmp[1].numDiffPixels * 100 * 100 = imgOptions["tolerance"] * (img1.width * img1.height)
    /\ cmp[1].match

\* the amount written by a captured run
Amount(match) == parseFloat(match[1])

\* C6: validateInvoice reports isCalculationCorrect exactly when a Net Bill was
\* extracted and equals Total Income minus Total Deductions, and hasNetBill
\* exactly when a Net Bill was extracted.
C6_CalculationVerified ==
    invoice # NoResult =>
        LET t == invoiceText
            balanced ==
                /\ t.netBill # <<>> /\ t.totalIncome # <<>> /\ t.totalDeductions # <<>>
                /\ Amount(t.netBill).t = "number"
                /\ Amount(t.totalIncome).t = "number"
                /\ Amount(t.totalDeductions).t = "number"
                /\ Amount(t.netBill).v = Amount(t.totalIncome).v - Amount(t.totalDeductions).v
        IN /\ invoice[1].isCalculationCorrect = balanced
           /\ invoice[1].hasNetBill = (t.netBill # <<>>)

\* C7: validatePdfContent puts every requested text in found when it occurs in
\* the PDF text and in missing otherwise, each list in request order; allFound
\* is TRUE exactly when missing is empty; a single string is a one-element list.
C7_FoundAndMissingPartition ==
    validation # NoResult =>
        LET requested == IF expectedTexts.isArray THEN expectedTexts.value
                         ELSE <<expectedTexts.value>>
            Occurs(t) == \E i \in 0..(Len(pdfText) - Len(t)) :
                             \A k \in 1..Len(t) : pdfText[i + k] = t[k]
            Absent(t) == ~Occurs(t)
            InList(t, list) == \E k \in DOMAIN list : list[k] = t
        IN /\ validation[1].found = SelectSeq(requested, Occurs)
           /\ validation[1].missing = SelectSeq(requested, Absent)
           /\ \A k \in DOMAIN requested :
                  InList(requested[k], validation[1].found)
                      # InList(requested[k], validation[1].missing)
           /\ validation[1].allFound = (validation[1].missing = <<>>)

C7_Witness ==
    /\ validation # NoResult
    /\ expectedTexts.isArray
    /\ Len(expectedTexts.value) = 2
    /\ Len(validation[1].found) = 1
    /\ Len(validation[1].missing) = 1
    /\ ~validation[1].allFound

\* C8: the status line reads 'Status: Accepted' exactly when the checkbox is
\* checked, and 'Status: Not Accepted' otherwise.
C8_StatusFollowsCheckbox ==
    /\ (view.status = "Status: Accepted") = checked
    /\ (view.status = "Status: Not Accepted") = ~checked

C8_Witness == checked /\ view.status = "Status: Accepted" /\ latest.checkbox = <<TRUE>>

\* C9: the helper text is 'Character count: n' with n the length of the text
\* field's value, after every change, and n = 0 when the field has been cleared.
CountLine(n) ==
    CASE n = 0 -> "Character count: 0" [] n = 1 -> "Character count: 1"
      [] n = 2 -> "Character count: 2" [] n = 3 -> "Character count: 3"
      [] n = 4 -> "Character count: 4"

C9_CharacterCount ==
    /\ view.helper = CountLine(Len(textValue))
    /\ textValue = "" => view.helper = "Character count: 0"

C9_Witness ==
    /\ latest.textfield = <<"Jo">>
    /\ view.helper = "Character count: 2"

\* C10: the greeting is displayed exactly when the text field's value is not
\* empty, it then reads 'Hello, <value>!', and it is gone once the field is cleared.
C10_GreetingWhenNonEmpty ==
    /\ (view.greeting # <<>>) = (textValue # "")
    /\ textValue # "" => view.greeting = <<"Hello, " \o textValue \o "!">>

C10_Witness ==
    /\ latest.textfield = <<" ">>
    /\ view.greeting = <<"Hello,  !">>

\* C11: the selection message is displayed exactly when a fruit is selected;
\* it then reads 'You selected: <fruit>' for the selected fruit, which is one of
\* the eight declared options.
C11_SelectionMessage ==
    /\ (view.selection # <<>>) = (selectedFruit # null)
    /\ selectedFruit # null =>
           /\ view.selection = <<"You selected: " \o selectedFruit>>
           /\ \E i \in 1..8 : fruitOptions[i] = selectedFruit

C11_Witness ==
    /\ latest.autocomplete = <<"Honeydew">>
    /\ view.selection = <<"You selected: Honeydew">>

\* C12: every page load leaves the app in the same initial state: unchecked
\* with status 'Not Accepted', an empty text field with character count 0 and
\* no greeting, no fruit selected and no selection message.
C12_LoadStartsFromInitialState ==
    event \in {"none", "load"} =>
        /\ checked = FALSE /\ view.status = "Status: Not Accepted"
        /\ textValue = "" /\ view.helper = "Character count: 0" /\ view.greeting = <<>>
        /\ selectedFruit = null /\ view.selection = <<>>

C12_Witness == event = "load" /\ ~checked /\ textValue = "" /\ selectedFruit = null

\* C13: after n toggles since the page was loaded the checkbox is checked
\* exactly when n is odd; after an even number (a check followed by an uncheck)
\* it is unchecked and the status reads 'Not Accepted'.
C13_ToggleParity ==
    /\ checked = (toggles % 2 = 1)
    /\ toggles % 2 = 0 => (~checked /\ view.status = "Status: Not Accepted")

C13_Witness == toggles = 4 /\ ~checked /\ view.status = "Status: Not Accepted"

\* C14: a click on a section heading changes none of checked, textValue and
\* selectedFruit, nor the status, character count, greeting or selection message.
C14_HeadingClickChangesNothing ==
    [][ event' = "heading" =>
            /\ UNCHANGED <<checked, textValue, selectedFruit>>
            /\ view'.status = view.status /\ view'.helper = view.helper
            /\ view'.greeting = view.greeting /\ view'.selection = view.selection ]_vars

C14_Witness ==
    /\ event = "heading"
    /\ checked /\ view.status = "Status: Accepted"
    /\ textValue = "Jo" /\ view.greeting = <<"Hello, Jo!">>
    /\ selectedFruit = "Date" /\ view.selection = <<"You selected: Date">>

DiffFile(name, n) == "e2e/fixtures/snapshots/" \o name \o "-page-" \o NatStr(n) \o "-diff.png"

\* C15: a comparePdfVisual(source, name, opts) without updateSnapshots that
\* comes right after comparePdfVisual(source, name, {updateSnapshots: true,
\* ...opts}) on the same PDF reports 'match' for every page.
C15_MatchAfterUpdate ==
    (call # NoResult /\ follows /\ ~UpdateRequested) =>
        /\ \A n \in LastPages : ret[1].results[n].status = "match"
        /\ ret[1].allMatch
        /\ assertion # "failed"

C15_Witness ==
    /\ call # NoResult
    /\ follows
    /\ ~UpdateRequested
    /\ Len(call[1].source.pages) = 2
    /\ \A n \in LastPages : ret[1].results[n].status = "match"
    /\ assertion = "passed"

\* C16: after comparePdfVisual ran with the options {updateSnapshots: true},
\* the baseline file of every page holds the image rendered from the PDF,
\* whether or not a baseline existed before.
C16_UpdateSavesRenderedImage ==
    (call # NoResult /\ DOMAIN call[1].options = {"updateSnapshots"} /\ UpdateRequested) =>
        \A n \in LastPages :
            /\ BaselineFile(call[1].baselineName, n) \in DOMAIN files
            /\ files[BaselineFile(call[1].baselineName, n)] = call[1].source.pages[n]

C20_DiffImageOnlyForMismatch ==
    call # NoResult =>
        \A n \in LastPages :
            LET result == ret[1].results[n]
                diffPath == DiffFile(call[1].baselineName, n)
            IN IF result.status = "mismatch" /\ "diffImage" \in DOMAIN result
               THEN /\ "diffImagePath" \in DOMAIN result
                    /\ result.diffImagePath = diffPath
                    /\ diffPath \in DOMAIN files
                    /\ files[diffPath] = result.diffImage
               ELSE /\ "diffImagePath" \notin DOMAIN result
                    /\ (diffPath \in DOMAIN files) = (diffPath \in DOMAIN before)
                    /\ diffPath \in DOMAIN files => files[diffPath] = before[diffPath]

C20_Witness ==
    /\ call # NoResult
    /\ Len(call[1].source.pages) = 2
    /\ ret[1].results[1].status = "mismatch"
    /\ "diffImagePath" \in DOMAIN ret[1].results[1]
    /\ DiffFile(call[1].baselineName, 1) \in DOMAIN files
    /\ DiffFile(call[1].baselineName, 1) \notin DOMAIN before
    /\ ret[1].results[2].status = "match"
    /\ DiffFile(call[1].baselineName, 2) \notin DOMAIN files

\* C18: when compareImages on two images of equal dimensions with tolerance 0
\* returns match = false, the diffPercentage it reports parses to a number
\* greater than 0.
C18_MismatchHasPositivePercentage ==
    ( /\ cmp # NoResult
      /\ img1.width = img2.width /\ img1.height = img2.height
      /\ ToleranceOf(imgOptions) = 0
      /\ ~cmp[1].match ) =>
        /\ parseFloat(cmp[1].diffPercentage).t = "number"
        /\ parseFloat(cmp[1].diffPercentage).v > 0

UnexpectedTexts == IF expectedTexts.isArray THEN expectedTexts.value ELSE <<expectedTexts.value>>

\* C19: expectPdfNotContainsText passes exactly when none of the given texts
\* occurs in the extracted text, and fails when at least one of them occurs.
C19_PassesIffNoneOccurs ==
    (validation # NoResult /\ assertion # "none") =>
        /\ (assertion = "passed") =
               (\A i \in 1..Len(UnexpectedTexts) : ~Includes(pdfText, UnexpectedTexts[i]))
        /\ (assertion = "failed") =
               (\E i \in 1..Len(UnexpectedTexts) : Includes(pdfText, UnexpectedTexts[i]))

C19_Witness ==
    /\ validation # NoResult
    /\ assertion = "failed"
    /\ expectedTexts.isArray
    /\ Len(expectedTexts.value) = 2
    /\ validation[1].found = <<expectedTexts.value[2]>>
    /\ validation[1].missing = <<expectedTexts.value[1]>>

LastName == call[1].baselineName
LastImage(n) == call[1].source.pages[n]
LastResult(n) == ret[1].results[n]

\* C22: when the baseline files of all pages hold the pages rendered from the
\* PDF, comparePdfVisual of that PDF under that name reports 'match' for every
\* page and allMatch = true, with or without updateSnapshots, and leaves the
\* snapshot directory as it was: no baseline and no diff image is written.
C22_RerunMatchesAndWritesNothing ==
    ( /\ call # NoResult
      /\ \A n \in LastPages : HadBaseline(n) /\ before[BaselineFile(LastName, n)] = LastImage(n) ) =>
        /\ \A n \in LastPages : LastResult(n).status = "match"
        /\ ret[1].allMatch
        /\ files = before

C22_Witness ==
    /\ call # NoResult
    /\ UpdateRequested
    /\ Len(call[1].source.pages) = 2
    /\ \A n \in LastPages : HadBaseline(n) /\ before[BaselineFile(LastName, n)] = LastImage(n)
    /\ \A n \in LastPages : LastResult(n).status = "match"
    /\ files = before

\* C23: allMatch is true exactly when every page result is 'match' or
\* 'baseline_created'; a run with a 'baseline_updated' page returns allMatch =
\* false although the stored baseline of that page now equals the rendered page.
C23_AllMatchExcludesUpdated ==
    call # NoResult =>
        /\ ret[1].allMatch =
               (\A n \in LastPages : LastResult(n).status \in {"match", "baseline_created"})
        /\ \A n \in LastPages :
               LastResult(n).status = "baseline_updated" =>
                   /\ ~ret[1].allMatch
                   /\ files[BaselineFile(LastName, n)] = LastImage(n)

C23_Witness ==
    /\ call # NoResult
    /\ Len(call[1].source.pages) = 2
    /\ LastResult(1).status = "match"
    /\ LastResult(2).status = "baseline_updated"
    /\ files[BaselineFile(LastName, 2)] = LastImage(2)
    /\ ~ret[1].allMatch

\* C24: expectPdfMatchesBaseline fails exactly when some page result is
\* 'mismatch'; so it never fails with updateSnapshots: true, and it passes on
\* runs whose allMatch is false because a baseline was updated.
C24_FailsIffMismatch ==
    (call # NoResult /\ assertion # "none") =>
        /\ (assertion = "failed") = (\E n \in LastPages : LastResult(n).status = "mismatch")
        /\ (assertion = "passed") = (\A n \in LastPages : LastResult(n).status # "mismatch")
        /\ UpdateRequested => assertion = "passed"

C24_Witness ==
    /\ call # NoResult
    /\ UpdateRequested
    /\ assertion = "passed"
    /\ ~ret[1].allMatch
    /\ \E n \in LastPages : LastResult(n).status = "baseline_updated"

\* the files of the pages a call renders
PagePaths == {BaselineFile(LastName, n) : n \in LastPages} \cup {DiffFile(LastName, n) : n \in LastPages}

\* C25: comparePdfVisual returns one result per rendered page, numbered
\* 1..totalPages in order, with totalPages the number of rendered pages; the
\* files of pages beyond that number are neither read (the returned value is
\* the one the call gives without them) nor written.
C25_OneResultPerRenderedPage ==
    call # NoResult =>
        /\ ret[1].totalPages = Len(call[1].source.pages)
        /\ Len(ret[1].results) = Len(call[1].source.pages)
        /\ \A n \in LastPages : LastResult(n).page = n
        /\ ret[1] = comparePdfVisual([p \in DOMAIN before \cap PagePaths |-> before[p]],
                                     call[1].source, LastName, call[1].options).ret
        /\ \A p \in DOMAIN before \ PagePaths : p \in DOMAIN files /\ files[p] = before[p]

C25_Witness ==
    /\ call # NoResult
    /\ Len(call[1].source.pages) = 1
    /\ ret[1].totalPages = 1
    /\ BaselineFile(LastName, 2) \in DOMAIN before
    /\ before[BaselineFile(LastName, 2)] # LastImage(1)
    /\ ret[1].allMatch

\* C26: after a call of comparePdfVisual a baseline file exists for every
\* rendered page, and every file that existed before the call still exists.
C26_BaselinesExistAndStay ==
    call # NoResult =>
        /\ \A n \in LastPages : BaselineFile(LastName, n) \in DOMAIN files
        /\ \A p \in DOMAIN before : p \in DOMAIN files

C26_Witness ==
    /\ call # NoResult
    /\ Len(call[1].source.pages) = 1
    /\ LastResult(1).status = "mismatch"
    /\ BaselineFile(LastName, 1) \in DOMAIN files
    /\ BaselineFile(LastName, 2) \in DOMAIN before
    /\ BaselineFile(LastName, 2) \in DOMAIN files

\* C27: without updateSnapshots, the baseline file of every page that had one
\* before the call has the same content after it, match or mismatch.
C27_NoUpdateKeepsBaselines ==
    (call # NoResult /\ ~UpdateRequested) =>
        \A n \in LastPages :
            HadBaseline(n) =>
                files[BaselineFile(LastName, n)] = before[BaselineFile(LastName, n)]

C27_Witness ==
    /\ call # NoResult
    /\ ~UpdateRequested
    /\ HadBaseline(1)
    /\ LastResult(1).status = "mismatch"
    /\ files[BaselineFile(LastName, 1)] = before[BaselineFile(LastName, 1)]
    /\ files[BaselineFile(LastName, 1)] # LastImage(1)

\* the page had a baseline of other dimensions than the rendered page
OtherDimensions(n) ==
    /\ HadBaseline(n)
    /\ \/ before[BaselineFile(LastName, n)].width # LastImage(n).width
       \/ before[BaselineFile(LastName, n)].height # LastImage(n).height

\* C28: for a baseline and a page of different dimensions compareImages returns
\* only match = false, the error 'Image dimensions do not match' and both
\* dimensions; comparePdfVisual reports the page 'mismatch' and writes no diff
\* image, or with updateSnapshots replaces the baseline and reports
\* 'baseline_updated'.
C28_DimensionMismatch ==
    call # NoResult =>
        \A n \in LastPages :
            OtherDimensions(n) =>
                LET baseline == before[BaselineFile(LastName, n)]
                    comparison == compareImages(baseline, LastImage(n), call[1].options)
                IN /\ comparison =
                          [ match |-> FALSE,
                            error |-> "Image dimensions do not match",
                            dimensions |->
                                [ img1 |-> [width |-> baseline.width, height |-> baseline.height],
                                  img2 |-> [width |-> LastImage(n).width, height |-> LastImage(n).height] ] ]
                   /\ (DiffFile(LastName, n) \in DOMAIN files) = (DiffFile(LastName, n) \in DOMAIN before)
                   /\ DiffFile(LastName, n) \in DOMAIN files =>
                          files[DiffFile(LastName, n)] = before[DiffFile(LastName, n)]
                   /\ IF UpdateRequested
                      THEN /\ LastResult(n).status = "baseline_updated"
                           /\ files[BaselineFile(LastName, n)] = LastImage(n)
                      ELSE /\ LastResult(n).status = "mismatch"
                           /\ DOMAIN LastResult(n) = {"page", "status", "match", "error", "dimensions"}
                           /\ files[BaselineFile(LastName, n)] = baseline

C28_Witness ==
    /\ call # NoResult
    /\ ~UpdateRequested
    /\ OtherDimensions(1)
    /\ LastResult(1).status = "mismatch"
    /\ LastResult(1).error = "Image dimensions do not match"
    /\ DiffFile(LastName, 1) \notin DOMAIN files

BothDone == \A t \in Callers : tasks[t].pc = "done"
First == resumed[1]
Second == resumed[2]
SharedPages ==
    {n \in 1..Len(tasks[First].args[1].source.pages) : n <= Len(tasks[Second].args[1].source.pages)}

\* C29: of two comparePdfVisual calls of one process for the same baseline name
\* that start from a directory without baselines, in whatever order they are
\* called and get past their await, only the one that resumes first reports
\* 'baseline_created' for a page both render; the other one is compared with
\* the file the first one wrote.
C29_OneCallCreatesBaseline ==
    BothDone =>
        \A n \in SharedPages :
            LET written == tasks[First].args[1].source.pages[n]
                other == tasks[Second].args[1]
                comparison == compareImages(written, other.source.pages[n], other.options)
            IN /\ tasks[First].ret[1].results[n].status = "baseline_created"
               /\ tasks[Second].ret[1].results[n].status # "baseline_created"
               /\ tasks[Second].ret[1].results[n].status =
                      (IF comparison.match THEN "match"
                       ELSE IF "updateSnapshots" \in DOMAIN other.options
                               /\ other.options["updateSnapshots"] = TRUE
                            THEN "baseline_updated" ELSE "mismatch")

C29_Witness ==
    /\ BothDone
    /\ tasks[2].overlapped
    /\ Len(tasks[1].args[1].source.pages) = 2
    /\ Len(tasks[2].args[1].source.pages) = 2
    /\ First = 2
    /\ tasks[2].ret[1].results[1].status = "baseline_created"
    /\ tasks[1].ret[1].results[1].status = "mismatch"
    /\ tasks[1].ret[1].results[2].status = "match"

\* C30: both download methods are listening for 'download' from before the
\* trigger runs until the event arrives, so an event emitted during the trigger
\* or after it is received, never missed; and they get past the await of the
\* download, and return, only after the event was received.
C30_DownloadEventNeverMissed ==
    /\ (dl.pc \in {"trigger", "awaitDownload"} /\ dl.fired = "no") => dl.listening
    /\ dl.fired # "no" => dl.received
    /\ dl.pc \in {"saveAs", "createReadStream", "streaming", "returned"} =>
           (dl.received /\ dl.fired # "no")

C30_Witness ==
    /\ dl.pc = "returned"
    /\ dl.method = "downloadPdfAsBuffer"
    /\ dl.fired = "trigger"
    /\ dl.received
    /\ dl.result = <<(<<"%PDF", "%%EOF">>)>>

====
